---- MODULE Spec2Model ----
(***************************************************************************)
(* Model of src/form_definition.py: the schema flattener                   *)
(* (FormDefinition.__init__, _extract_question_ids, _add_options), the     *)
(* domain value types (Form*.is_valid) and the report / dataset validator  *)
(* (validate_report, validate_dataset).                                    *)
(*                                                                         *)
(* Python values are records [cls, n, h, s, minimum, maximum]:             *)
(*   cls is the Python class, n + h/2 the numeric value of an int, bool or *)
(*   float, s the characters of a str, minimum/maximum the bounds of a     *)
(*   FormInteger / FormNumber instance.                                    *)
(***************************************************************************)
EXTENDS Integers, Sequences, FiniteSets, TLC

\* ------------------------------------------------------------------ bounds
MaxBound == 1      \* declared minimum/maximum range over -MaxBound..MaxBound
MaxEnumLen == 2    \* longest "enum" list of a schema leaf
MaxQas == 2        \* most question-answer pairs of a report
MaxReports == 2    \* most reports of a dataset
MaxCtx == 3        \* longest context of an evidence check
MaxItems == 2      \* longest text / answer_start list of a complex answer

VARIABLES
    pc,                \* position of the modelled client
    hash_order,        \* slot order of the small-int hashes in a Python set
    schema,            \* FormDefinition.schema
    question_ids,      \* FormDefinition.question_ids
    possible_options,  \* FormDefinition.possible_options
    run,               \* the locals of the validate_dataset call in progress
    call               \* the last call of a validation method: arguments and outcome

vars == <<pc, hash_order, schema, question_ids, possible_options, run, call>>

\* ------------------------------------------------------- Python values
NoBound == [t |-> "None", v |-> 0]
BInt(v) == [t |-> "int", v |-> v]
NegInf == [t |-> "-inf", v |-> 0]
PosInf == [t |-> "inf", v |-> 0]

Lit(cls, n, h, s) ==
    [cls |-> cls, n |-> n, h |-> h, s |-> s, minimum |-> NoBound, maximum |-> NoBound]

PyNone == Lit("NoneType", 0, 0, <<>>)
PyInt(n) == Lit("int", n, 0, <<>>)
PyFloat(n, h) == Lit("float", n, h, <<>>)
PyBool(b) == Lit("bool", IF b THEN 1 ELSE 0, 0, <<>>)
PyStr(s) == Lit("str", 0, 0, s)

NumericClasses == {"int", "bool", "float"}
FormClasses == {"FormInteger", "FormNumber", "FormString", "FormDate", "FormTime", "FormDateTime"}

\* twice the numeric value of an int, bool or float
Num2(v) == 2 * v.n + v.h

\* isinstance(v, cls): bool is a subclass of int
IsInstance(v, cls) == v.cls = cls \/ (v.cls = "bool" /\ cls = "int")

\* Python's ==: numbers (bool included) compare by value, str by content,
\* Form* instances by identity
PyEq(a, b) ==
    IF a.cls \in NumericClasses /\ b.cls \in NumericClasses THEN Num2(a) = Num2(b)
    ELSE a = b

\* Python truthiness of a value
Truthy(v) ==
    CASE v.cls = "NoneType" -> FALSE
      [] v.cls \in NumericClasses -> Num2(v) # 0
      [] v.cls = "str" -> v.s # <<>>
      [] OTHER -> TRUE

\* set.add: a value equal (==) to a member is not added again
SetAdd(S, x) == IF \E y \in S : PyEq(y, x) THEN S ELSE S \cup {x}

\* Slot of a value in a set's table: small ints (and the bools equal to
\* them) hash to themselves and sit where hash_order puts them; everything
\* else comes after.
Slot(v) ==
    IF v.cls \in {"int", "bool"} /\ \E i \in 1..Len(hash_order) : hash_order[i] = v.n
    THEN CHOOSE i \in 1..Len(hash_order) : hash_order[i] = v.n
    ELSE Len(hash_order) + 1

\* iteration order of a Python set
RECURSIVE Iter(_)
Iter(S) ==
    IF S = {} THEN <<>>
    ELSE LET x == CHOOSE x \in S : \A y \in S : Slot(x) <= Slot(y)
         IN <<x>> \o Iter(S \ {x})

\* ------------------------------------------------------ bounds arithmetic
\* a < b on ints and the floats -inf / inf
BLess(a, b) ==
    CASE a.t = "-inf" -> b.t # "-inf"
      [] a.t = "inf" -> FALSE
      [] OTHER -> b.t = "inf" \/ (b.t = "int" /\ a.v < b.v)

PyMin(a, b) == IF BLess(b, a) THEN b ELSE a
PyMax(a, b) == IF BLess(a, b) THEN b ELSE a

\* truthiness of a bound: None and 0 are falsy
BoundTruthy(b) == b.t \in {"inf", "-inf"} \/ (b.t = "int" /\ b.v # 0)

\* MergeMinimum with None read as +inf, so that a missing minimum never widens
MergeMinimumKeepsDeclared(e, n) ==
    PyMin(IF e.t # "None" THEN e ELSE PosInf, IF n.t # "None" THEN n ELSE PosInf)

\* lines 62-65: minimum of the two minimums, None read as -inf
MergeMinimum(e, n) ==
    PyMin(IF e.t # "None" THEN e ELSE NegInf, IF n.t # "None" THEN n ELSE NegInf)

\* line 66: max(existing.maximum or inf, new.maximum or inf)
MergeMaximum(e, n) ==
    PyMax(IF BoundTruthy(e) THEN e ELSE PosInf, IF BoundTruthy(n) THEN n ELSE PosInf)

\* ------------------------------------------------------ domain value types
FormInteger(minimum, maximum) ==
    [cls |-> "FormInteger", n |-> 0, h |-> 0, s |-> <<>>, minimum |-> minimum, maximum |-> maximum]
FormNumber(minimum, maximum) ==
    [cls |-> "FormNumber", n |-> 0, h |-> 0, s |-> <<>>, minimum |-> minimum, maximum |-> maximum]
FormObj(cls) ==
    [cls |-> cls, n |-> 0, h |-> 0, s |-> <<>>, minimum |-> NoBound, maximum |-> NoBound]
FormString == FormObj("FormString")
FormDate == FormObj("FormDate")
FormTime == FormObj("FormTime")
FormDateTime == FormObj("FormDateTime")

\* ------------------------------------------------------------ schema nodes
\* A schema node is a dict; keys is its key order, the other fields are the
\* values of the keys it has.
Node(keys, type, type_is_list, enum, minimum, maximum, format, properties, anyOf) ==
    [keys |-> keys, type |-> type, type_is_list |-> type_is_list, enum |-> enum,
     minimum |-> minimum, maximum |-> maximum, format |-> format,
     properties |-> properties, anyOf |-> anyOf]

HasKey(data, key) == \E i \in 1..Len(data.keys) : data.keys[i] = key

\* data_property.get("minimum") / .get("maximum")
GetMinimum(data) == IF HasKey(data, "minimum") THEN BInt(data.minimum) ELSE NoBound
GetMaximum(data) == IF HasKey(data, "maximum") THEN BInt(data.maximum) ELSE NoBound

\* the set built by enum_options.add(op) over the enum list
RECURSIVE EnumOptions(_)
EnumOptions(enum) ==
    IF enum = <<>> THEN {}
    ELSE SetAdd(EnumOptions(SubSeq(enum, 1, Len(enum) - 1)), enum[Len(enum)])

\* _handle_string_format
HandleStringFormat(data) ==
    CASE HasKey(data, "format") /\ data.format = "date" -> {FormDate}
      [] HasKey(data, "format") /\ data.format = "time" -> {FormTime}
      [] HasKey(data, "format") /\ data.format = "date-time" -> {FormDateTime}
      [] OTHER -> IF HasKey(data, "enum") THEN EnumOptions(data.enum) ELSE {FormString}

SupportedTypes == {"boolean", "integer", "number", "null", "string"}

\* _get_data_options (a data type outside SupportedTypes raises ValueError)
GetDataOptions(data_type, data) ==
    CASE data_type = "boolean" -> {PyBool(TRUE), PyBool(FALSE)}
      [] data_type = "integer" -> {FormInteger(GetMinimum(data), GetMaximum(data))}
      [] data_type = "number" -> {FormNumber(GetMinimum(data), GetMaximum(data))}
      [] data_type = "null" -> {PyNone}
      [] data_type = "string" -> HandleStringFormat(data)
      [] OTHER -> {}

\* line 59-60: the first member of the same class as new_option that is not a
\* str, or None
ExistingOption(S, new_option) ==
    LET matching == SelectSeq(Iter(S),
                       LAMBDA opt : IsInstance(opt, new_option.cls) /\ ~IsInstance(opt, "str"))
    IN IF matching = <<>> THEN PyNone ELSE matching[1]

\* lines 61-68: one pass of the loop body of _add_options
AddOption(S, new_option) ==
    LET existing_option == ExistingOption(S, new_option)
    IN IF new_option.cls \in {"FormInteger", "FormNumber"} /\ Truthy(existing_option)
       THEN (S \ {existing_option}) \cup
            {[existing_option EXCEPT
                !.minimum = MergeMinimum(existing_option.minimum, new_option.minimum),
                !.maximum = MergeMaximum(existing_option.maximum, new_option.maximum)]}
       ELSE IF ~Truthy(existing_option) THEN SetAdd(S, new_option)
       ELSE S

RECURSIVE AddOptionSeq(_, _)
AddOptionSeq(S, news) ==
    IF news = <<>> THEN S ELSE AddOptionSeq(AddOption(S, Head(news)), Tail(news))

\* _add_options on the possible_options mapping po
AddOptions(po, question_id, options) ==
    LET S == IF question_id \in DOMAIN po THEN po[question_id] ELSE {}
        T == AddOptionSeq(S, Iter(options))
    IN [q \in DOMAIN po \cup {question_id} |-> IF q = question_id THEN T ELSE po[q]]

\* ------------------------------------------------------- schema flattener
\* JoinId without the test for an empty base_id
JoinIdAlwaysDotted(base_id, prop_id) == base_id \o "." \o prop_id

\* f"{base_id}.{prop_id}" if base_id else prop_id
JoinId(base_id, prop_id) == IF base_id # "" THEN base_id \o "." \o prop_id ELSE prop_id

\* line 40: "type" in data and data['type'] != 'object'
DeclaresLeafType(data) ==
    HasKey(data, "type") /\ (data.type_is_list \/ data.type # <<"object">>)

\* lines 42-43: the loop over data_types; st is [question_ids, possible_options, raised]
RECURSIVE AddTypeOptions(_, _, _, _)
AddTypeOptions(data, base_id, st, i) ==
    IF i > Len(data.type) THEN st
    ELSE IF data.type[i] \notin SupportedTypes THEN [st EXCEPT !.raised = TRUE]
    ELSE AddTypeOptions(data, base_id,
             [st EXCEPT !.possible_options =
                 AddOptions(st.possible_options, base_id, GetDataOptions(data.type[i], data))],
             i + 1)

\* lines 40-47: what the loop body does after visiting the value of a key
RegisterQuestion(data, base_id, st) ==
    IF DeclaresLeafType(data)
    THEN LET st1 == AddTypeOptions(data, base_id, st, 1)
         IN IF st1.raised THEN st1
            ELSE [st1 EXCEPT !.question_ids = @ \cup {base_id}]
    ELSE IF HasKey(data, "enum")
    THEN [st EXCEPT !.possible_options =
                        AddOptions(@, base_id, GetDataOptions("string", data)),
                    !.question_ids = @ \cup {base_id}]
    ELSE st

RECURSIVE ExtractKeys(_, _, _, _), ExtractProperties(_, _, _, _), ExtractItems(_, _, _, _)

\* _extract_question_ids on a dict
ExtractQuestionIds(data, base_id, st) == ExtractKeys(data, base_id, st, 1)

\* lines 33-47: the loop over data.items(), from the i-th key on
ExtractKeys(data, base_id, st, i) ==
    IF st.raised \/ i > Len(data.keys) THEN st
    ELSE LET key == data.keys[i]
             st1 == IF key = "properties"
                    THEN ExtractProperties(data.properties, base_id, st, 1)
                    ELSE IF key = "anyOf"
                    THEN ExtractItems(data.anyOf, base_id, st, 1)
                    ELSE st
             st2 == IF st1.raised THEN st1 ELSE RegisterQuestion(data, base_id, st1)
         IN ExtractKeys(data, base_id, st2, i + 1)

\* lines 35-36: the loop over the properties of a container
ExtractProperties(props, base_id, st, j) ==
    IF st.raised \/ j > Len(props) THEN st
    ELSE ExtractProperties(props, base_id,
             ExtractKeys(props[j].node, JoinId(base_id, props[j].prop_id), st, 1), j + 1)

\* lines 49-51: a list value, every item visited under the same base_id
ExtractItems(items, base_id, st, j) ==
    IF st.raised \/ j > Len(items) THEN st
    ELSE ExtractItems(items, base_id, ExtractKeys(items[j], base_id, st, 1), j + 1)

\* lines 20-22: the flattened model of a schema
Flatten(sch) ==
    ExtractQuestionIds(sch, "", [question_ids |-> {}, possible_options |-> <<>>, raised |-> FALSE])

\* --------------------------------------------------------- schema inputs
BoundVals == (-MaxBound..MaxBound) \cup {10}
\* an optional bound: <<present, value>>
OptBounds == {<<FALSE, 0>>} \cup {<<TRUE, v>> : v \in BoundVals}

Leaf(keys, type, type_is_list, enum, minimum, maximum, format) ==
    Node(keys, type, type_is_list, enum, minimum, maximum, format, <<>>, <<>>)

\* {"type": kind, "minimum": .., "maximum": .., "description": ..}
NumLeaf(kind, mn, mx, descr) ==
    Leaf(<<"type">> \o (IF mn[1] THEN <<"minimum">> ELSE <<>>)
                    \o (IF mx[1] THEN <<"maximum">> ELSE <<>>)
                    \o (IF descr THEN <<"description">> ELSE <<>>),
         <<kind>>, FALSE, <<>>, mn[2], mx[2], "")

NumKinds == {"integer", "number"}
NumLeaves == {NumLeaf(k, mn, mx, d) : k \in NumKinds, mn \in OptBounds, mx \in OptBounds, d \in BOOLEAN}
PlainNumLeaves == {NumLeaf(k, mn, mx, FALSE) : k \in NumKinds, mn \in OptBounds, mx \in OptBounds}

\* {"anyOf": [a, b]}: two declarations for the same question id
AnyOfNode(a, b) == Node(<<"anyOf">>, <<>>, FALSE, <<>>, 0, 0, "", <<>>, <<a, b>>)
\* the declarations with at most one bound
OneBoundLeaves == {l \in PlainNumLeaves : Len(l.keys) <= 2}
AnyOfNodes ==
    {n \in {AnyOfNode(a, b) : a \in OneBoundLeaves, b \in OneBoundLeaves} :
        n.anyOf[2].type = n.anyOf[1].type \/ n.anyOf[2].keys = <<"type">>}

IntLits == {0, 1, 2}
EnumLits ==
    {PyInt(n) : n \in IntLits} \cup
    {PyBool(TRUE), PyBool(FALSE), PyStr(<<"a">>), PyStr(<<"b">>), PyNone}
EnumSeqs == UNION {[1..k -> EnumLits] : k \in 1..MaxEnumLen}
EnumLeaves ==
    {Leaf(<<"enum">>, <<>>, FALSE, e, 0, 0, "") : e \in EnumSeqs} \cup
    {Leaf(<<"type", "enum">>, <<"string">>, FALSE, e, 0, 0, "") : e \in EnumSeqs} \cup
    {Leaf(<<"enum", "format">>, <<>>, FALSE, <<PyStr(<<"a">>)>>, 0, 0, "date")}

TypedLeaf(type, type_is_list) == Leaf(<<"type">>, type, type_is_list, <<>>, 0, 0, "")
FormatLeaf(format) == Leaf(<<"type", "format">>, <<"string">>, FALSE, <<>>, 0, 0, format)
OtherLeaves ==
    {TypedLeaf(<<t>>, FALSE) : t \in {"string", "boolean", "null", "array"}} \cup
    {TypedLeaf(t, TRUE) : t \in {<<"integer", "null">>, <<"string", "null">>, <<"boolean", "null">>,
                                  <<"integer", "number">>, <<"integer", "integer">>,
                                  <<"object", "null">>}} \cup
    {FormatLeaf(f) : f \in {"date", "time", "date-time", "email"}}

Leaves == NumLeaves \cup AnyOfNodes \cup EnumLeaves \cup OtherLeaves

Prop(prop_id, node) == [prop_id |-> prop_id, node |-> node]

\* a container: {"type": "object", "properties": {...}, "required": [...]}
Container(keys, props) == Node(keys, <<"object">>, FALSE, <<>>, 0, 0, "", props, <<>>)

\* the nested container "g", with and without a "type" key
InnerContainers ==
    {Container(<<"type", "properties", "required">>,
               <<Prop("b", NumLeaf("integer", <<TRUE, 0>>, <<FALSE, 0>>, FALSE))>>),
     Container(<<"properties">>,
               <<Prop("b", Leaf(<<"enum">>, <<>>, FALSE, <<PyStr(<<"a">>)>>, 0, 0, ""))>>)}

\* {"type": "object", "properties": {"a": x, "g": inner}, "required": [..]}
Root(x, inner) ==
    Container(<<"type", "properties", "required">>, <<Prop("a", x), Prop("g", inner)>>)

Schemas == {Root(x, inner) : x \in Leaves, inner \in InnerContainers}

EmptySchema == Node(<<>>, <<>>, FALSE, <<>>, 0, 0, "", <<>>, <<>>)

\* the possible slot orders of the hashes of the int literals
Orders ==
    {f \in [1..Cardinality(IntLits) -> IntLits] :
        \A i, j \in 1..Cardinality(IntLits) : f[i] = f[j] => i = j}

NoRun == [pc |-> "idle"]
NoCall == [op |-> "none"]

\* ------------------------------------------------- construction (flatten)
InitNew(orders) ==
    /\ pc = "new"
    /\ hash_order \in orders
    /\ schema = EmptySchema
    /\ question_ids = {}
    /\ possible_options = <<>>
    /\ run = NoRun
    /\ call = NoCall

InitFlatten == InitNew(Orders)

\* FormDefinition.__init__: load one of the schemas and flatten it; an
\* unsupported data type raises ValueError and no object is built
ConstructFrom(schemas) ==
    /\ pc = "new"
    /\ \E sch \in schemas :
         \E st \in {Flatten(sch)} :
            /\ schema' = sch
            /\ pc' = IF st.raised THEN "failed" ELSE "ready"
            /\ question_ids' = IF st.raised THEN {} ELSE st.question_ids
            /\ possible_options' = IF st.raised THEN <<>> ELSE st.possible_options
    /\ UNCHANGED <<hash_order, run, call>>

Construct == ConstructFrom(Schemas)

NextFlatten == Construct

SpecFlatten == InitFlatten /\ [][NextFlatten]_vars

\* ------------------------------------------- properties of the flattener
\* the dot-path of the property prop_id of the node at path
DotPath(path, prop_id) == IF path = "" THEN prop_id ELSE path \o "." \o prop_id

\* every dict node of a schema with its dot-path
RECURSIVE NodesAt(_, _)
NodesAt(data, path) ==
    {[path |-> path, node |-> data]}
    \cup (IF HasKey(data, "properties")
          THEN UNION {NodesAt(data.properties[j].node, DotPath(path, data.properties[j].prop_id)) :
                         j \in 1..Len(data.properties)}
          ELSE {})
    \cup (IF HasKey(data, "anyOf")
          THEN UNION {NodesAt(data.anyOf[j], path) : j \in 1..Len(data.anyOf)}
          ELSE {})

SchemaNodes == NodesAt(schema, "")

\* a leaf: declares a type other than 'object', or an enum
IsLeafNode(n) == (HasKey(n, "type") /\ n.type # <<"object">>) \/ HasKey(n, "enum")
\* a pure container: properties or type 'object', and no enum of its own
IsPureContainer(n) ==
    /\ ~HasKey(n, "enum")
    /\ HasKey(n, "properties") \/ (HasKey(n, "type") /\ n.type = <<"object">>)
    /\ HasKey(n, "type") => n.type = <<"object">>

IsMergeExample ==
    /\ pc = "ready"
    /\ schema.properties[1].node =
          AnyOfNode(NumLeaf("integer", <<TRUE, 0>>, <<FALSE, 0>>, FALSE),
                    NumLeaf("integer", <<FALSE, 0>>, <<TRUE, 10>>, FALSE))

\* C7 as stated: merging Integer(min=0, max=None) and Integer(min=None,
\* max=10) for the same QuestionId yields exactly one Integer entry, with
\* min=0 and max=10.
MergeKeepsBothBounds ==
    IsMergeExample =>
        {o \in possible_options["a"] : o.cls = "FormInteger"} = {FormInteger(BInt(0), BInt(10))}

\* C7 amended: merging Integer(min=0, max=None) and Integer(min=None, max=10)
\* for the same QuestionId yields exactly one Integer entry, and that entry
\* is unbounded on both sides (minimum -inf, maximum +inf).
MergeWidensToUnbounded ==
    IsMergeExample =>
        {o \in possible_options["a"] : o.cls = "FormInteger"} = {FormInteger(NegInf, PosInf)}

MergeWidensWitness == IsMergeExample /\ Cardinality(possible_options["a"]) = 1

\* the declarations of a numeric kind under a question id
TypeName(cls) == IF cls = "FormInteger" THEN "integer" ELSE "number"
Declarations(q, cls) ==
    {e.node : e \in {x \in SchemaNodes :
                        /\ x.path = q
                        /\ HasKey(x.node, "type")
                        /\ \E i \in 1..Len(x.node.type) : x.node.type[i] = TypeName(cls)}}

IsUnbounded(b) == b.t \in {"None", "-inf", "inf"}

\* the bound b is the widening of the declared minimums / maximums
IsWidenedMinimum(b, decls) ==
    IF \E d \in decls : ~HasKey(d, "minimum") THEN IsUnbounded(b)
    ELSE b.t = "int" /\ (\E d \in decls : d.minimum = b.v) /\ (\A d \in decls : b.v <= d.minimum)
IsWidenedMaximum(b, decls) ==
    IF \E d \in decls : ~HasKey(d, "maximum") THEN IsUnbounded(b)
    ELSE b.t = "int" /\ (\E d \in decls : d.maximum = b.v) /\ (\A d \in decls : b.v >= d.maximum)

\* C8: after flattening, for each QuestionId and each of the kinds Integer
\* and Number there is at most one option instance, and its bounds are the
\* widening of all declarations of that kind for that QuestionId (least
\* declared minimum, greatest declared maximum, unbounded if a declaration
\* has no bound), for every bound value including 0 and negative ones; a
\* leaf declared once keeps exactly its own bounds however many keys it has.
BoundsAreWidened ==
    pc = "ready" =>
        \A q \in question_ids : \A cls \in {"FormInteger", "FormNumber"} :
            LET insts == {o \in possible_options[q] : o.cls = cls}
                decls == Declarations(q, cls)
            IN /\ Cardinality(insts) <= 1
               /\ decls # {} =>
                     /\ insts # {}
                     /\ \A o \in insts : /\ IsWidenedMinimum(o.minimum, decls)
                                         /\ IsWidenedMaximum(o.maximum, decls)

\* C9: for a leaf that declares an enum (and no date/time/date-time format),
\* after flattening the possible options of its QuestionId contain every
\* literal value listed in the enum, whatever the literal kind and whatever
\* other literals are listed; no distinct enum value is dropped.
EnumValuesAllKept ==
    pc = "ready" =>
        \A e \in SchemaNodes :
            (/\ HasKey(e.node, "enum")
             /\ HasKey(e.node, "type") => e.node.type = <<"string">>
             /\ ~(HasKey(e.node, "format") /\ e.node.format \in {"date", "time", "date-time"}))
            => \A i \in 1..Len(e.node.enum) :
                  \E o \in possible_options[e.path] : PyEq(o, e.node.enum[i])

\* ------------------------------------------------------ is_valid methods
Digits == <<"0", "1", "2", "3", "4", "5", "6", "7", "8", "9">>
IsDigit(c) == \E i \in 1..10 : Digits[i] = c
DigitVal(c) == (CHOOSE i \in 1..10 : Digits[i] = c) - 1

\* value of a run of one or two digits (or one digit after a space)
FieldVal(f) ==
    IF Len(f) = 1 THEN DigitVal(f[1])
    ELSE IF f[1] = " " THEN DigitVal(f[2])
    ELSE 10 * DigitVal(f[1]) + DigitVal(f[2])

AllDigits(f) == \A i \in 1..Len(f) : IsDigit(f[i])

\* the regular expressions _strptime builds for the directives
MatchesY(f) == Len(f) = 4 /\ AllDigits(f)
MatchesField(f, lo, hi, space_ok) ==
    /\ Len(f) \in {1, 2}
    /\ AllDigits(f) \/ (space_ok /\ Len(f) = 2 /\ f[1] = " " /\ IsDigit(f[2]))
    /\ FieldVal(f) >= lo /\ FieldVal(f) <= hi
    /\ (Len(f) = 2 /\ f[1] = " ") => FieldVal(f) >= 1

\* the position of the first separator sep in s, or Len(s) + 1
FirstSep(s, sep) ==
    IF \E i \in 1..Len(s) : s[i] = sep
    THEN CHOOSE i \in 1..Len(s) : s[i] = sep /\ \A j \in 1..(i - 1) : s[j] # sep
    ELSE Len(s) + 1

\* s split at the separators sep, in order
RECURSIVE Split(_, _)
Split(s, sep) ==
    LET i == FirstSep(s, sep)
    IN IF i > Len(s) THEN <<s>>
       ELSE <<SubSeq(s, 1, i - 1)>> \o Split(SubSeq(s, i + 1, Len(s)), sep)

YearVal(f) == 1000 * DigitVal(f[1]) + 100 * DigitVal(f[2]) + 10 * DigitVal(f[3]) + DigitVal(f[4])
IsLeap(y) == y % 4 = 0 /\ (y % 100 # 0 \/ y % 400 = 0)
DaysInMonth(y, m) ==
    IF m = 2 THEN (IF IsLeap(y) THEN 29 ELSE 28)
    ELSE IF m \in {4, 6, 9, 11} THEN 30 ELSE 31

\* datetime.strptime(s, "%Y-%m-%d") does not raise
ParsesDate(s) ==
    LET f == Split(s, "-")
    IN /\ Len(f) = 3
       /\ MatchesY(f[1]) /\ MatchesField(f[2], 1, 12, FALSE) /\ MatchesField(f[3], 1, 31, TRUE)
       /\ YearVal(f[1]) >= 1
       /\ FieldVal(f[3]) <= DaysInMonth(YearVal(f[1]), FieldVal(f[2]))

\* datetime.strptime(s, "%H:%M:%S") does not raise
ParsesTime(s) ==
    LET f == Split(s, ":")
    IN /\ Len(f) = 3
       /\ MatchesField(f[1], 0, 23, FALSE)
       /\ MatchesField(f[2], 0, 59, FALSE)
       /\ MatchesField(f[3], 0, 59, FALSE)

\* datetime.strptime(s, "%Y-%m-%dT%H:%M:%S") does not raise
ParsesDateTime(s) ==
    LET f == Split(s, "T")
    IN Len(f) = 2 /\ ParsesDate(f[1]) /\ ParsesTime(f[2])

\* var >= bound and var <= bound for a numeric var and an int / inf bound
GeqBound(var, b) == b.t = "-inf" \/ (b.t = "int" /\ Num2(var) >= 2 * b.v)
LeqBound(var, b) == b.t = "inf" \/ (b.t = "int" /\ Num2(var) <= 2 * b.v)

InRange(op, var) ==
    /\ op.minimum.t = "None" \/ GeqBound(var, op.minimum)
    /\ op.maximum.t = "None" \/ LeqBound(var, op.maximum)

\* op.is_valid(var) of the Form* classes
IsValid(op, var) ==
    CASE op.cls = "FormInteger" -> IsInstance(var, "int") /\ InRange(op, var)
      [] op.cls = "FormNumber" -> (IsInstance(var, "float") \/ IsInstance(var, "int")) /\ InRange(op, var)
      [] op.cls = "FormString" -> IsInstance(var, "str")
      [] op.cls = "FormDate" -> IsInstance(var, "str") /\ ParsesDate(var.s)
      [] op.cls = "FormTime" -> IsInstance(var, "str") /\ ParsesTime(var.s)
      [] op.cls = "FormDateTime" -> IsInstance(var, "str") /\ ParsesDateTime(var.s)
      [] OTHER -> FALSE

\* line 182: the test of one possible option against enumeration_value_id
OptionAccepts(op, value) == PyEq(value, op) \/ (op.cls \in FormClasses /\ IsValid(op, value))

\* _validate_enumeration_value_ids: "" when valid, else the error raised
ValidateEnumerationValueIds(qa) ==
    IF \E op \in possible_options[qa.question_id] : OptionAccepts(op, qa.enumeration_value_id)
    THEN "" ELSE "enumeration_value"

\* ----------------------------------------------------------- evidences
\* a value of an answer field: a str, int, bool, None or a list of those
AVal(cls, n, s, items) == [cls |-> cls, n |-> n, s |-> s, items |-> items]
AStr(s) == AVal("str", 0, s, <<>>)
AInt(n) == AVal("int", n, <<>>, <<>>)
ABool(b) == AVal("bool", IF b THEN 1 ELSE 0, <<>>, <<>>)
ANone == AVal("NoneType", 0, <<>>, <<>>)
AList(items) == AVal("list", 0, <<>>, items)

Min(a, b) == IF a < b THEN a ELSE b

\* context[lo:hi] for 0 <= lo
PySlice(context, lo, hi) == SubSeq(context, Min(lo, Len(context)) + 1, Min(hi, Len(context)))

\* _validate_single_answer: "" when valid, else the error raised
ValidateSingleAnswer(text, start, context) ==
    IF ~IsInstance(text, "str") \/ ~IsInstance(start, "int") THEN "answer_types"
    ELSE IF ~(Len(text.s) >= 1 /\ start.n >= 0) THEN "answer_empty_or_negative"
    ELSE IF PySlice(context, start.n, start.n + Len(text.s)) # text.s THEN "answer_not_found"
    ELSE ""

\* lines 176-177: the loop over zip(text, answer_start)
RECURSIVE ValidateZip(_, _, _, _)
ValidateZip(texts, starts, context, i) ==
    IF i > Min(Len(texts), Len(starts)) THEN ""
    ELSE LET e == ValidateSingleAnswer(texts[i], starts[i], context)
         IN IF e # "" THEN e ELSE ValidateZip(texts, starts, context, i + 1)

\* ValidateComplexAnswer accepting a single entry (len < 1 for len <= 1)
ValidateComplexAnswerOneEntry(answer, context) ==
    IF ~IsInstance(answer.text, "list") \/ ~IsInstance(answer.answer_start, "list")
    THEN "complex_not_arrays"
    ELSE IF Len(answer.text.items) # Len(answer.answer_start.items) \/ Len(answer.text.items) < 1
    THEN "complex_lengths"
    ELSE ValidateZip(answer.text.items, answer.answer_start.items, context, 1)

\* _validate_complex_answer
ValidateComplexAnswer(answer, context) ==
    IF ~IsInstance(answer.text, "list") \/ ~IsInstance(answer.answer_start, "list")
    THEN "complex_not_arrays"
    ELSE IF Len(answer.text.items) # Len(answer.answer_start.items) \/ Len(answer.text.items) <= 1
    THEN "complex_lengths"
    ELSE ValidateZip(answer.text.items, answer.answer_start.items, context, 1)

\* lines 152-157: the check of one answer
ValidateAnswer(answer, context) ==
    IF answer.answer_type = "single"
    THEN ValidateSingleAnswer(answer.text, answer.answer_start, context)
    ELSE IF answer.answer_type = "complex" THEN ValidateComplexAnswer(answer, context)
    ELSE "answer_type"

\* _validate_evidences: the loop over qa["answers"]
RECURSIVE ValidateAnswers(_, _, _)
ValidateAnswers(answers, context, i) ==
    IF i > Len(answers) THEN ""
    ELSE LET e == ValidateAnswer(answers[i], context)
         IN IF e # "" THEN e ELSE ValidateAnswers(answers, context, i + 1)

ValidateEvidences(qa, context) ==
    IF "answers" \in qa.missing THEN "KeyError"
    ELSE ValidateAnswers(qa.answers, context, 1)

\* ------------------------------------------------------ report validation
Qa(id, question_id, enumeration_value_id, answers, missing) ==
    [id |-> id, question_id |-> question_id, enumeration_value_id |-> enumeration_value_id,
     answers |-> answers, missing |-> missing]
Answer(answer_type, text, answer_start) ==
    [answer_type |-> answer_type, text |-> text, answer_start |-> answer_start]
Paragraph(context, qas) == [context |-> context, qas |-> qas]
Report(report_id, paragraphs, missing) ==
    [report_id |-> report_id, paragraphs |-> paragraphs, missing |-> missing]

\* f"{report['report_id']}_{qa['question_id']}"
ExpectedId(report, qa) == report.report_id \o "_" \o qa.question_id

\* the outcome of a validation in progress: the exception raised ("" for
\* none), its message, the checks started so far, and the used_ids set
Outcome(exc, err, trace, used_ids) ==
    [exc |-> exc, err |-> err, trace |-> trace, used_ids |-> used_ids]
Raise(r, exc, err) == [r EXCEPT !.exc = exc, !.err = err]

\* _validate_qa
ValidateQa(qa, report, r) ==
    IF qa.id # ExpectedId(report, qa) THEN Raise(r, "ValueError", "id_format")
    ELSE IF qa.id \in r.used_ids THEN Raise(r, "ValueError", "duplicate_id")
    ELSE IF qa.question_id \notin question_ids THEN Raise(r, "ValueError", "unknown_question_id")
    ELSE [r EXCEPT !.used_ids = @ \cup {qa.id}]

\* QaStages with the evidence loop ahead of the id loop
QaStagesEvidenceFirst == <<"evidences", "qa", "enumeration">>

\* the three loops over paragraph["qas"], lines 122-132
QaStages == <<"qa", "evidences", "enumeration">>

\* the call one loop makes for one qa
RunStage(stage, qa, report, r) ==
    CASE stage = "qa" -> ValidateQa(qa, report, r)
      [] stage = "evidences" ->
            LET e == ValidateEvidences(qa, report.paragraphs[1].context)
            IN IF e = "" THEN r
               ELSE IF e = "KeyError" THEN Raise(r, "KeyError", "answers")
               ELSE Raise(r, "ValueError", e)
      [] stage = "enumeration" ->
            LET e == ValidateEnumerationValueIds(qa)
            IN IF e = "" THEN r ELSE Raise(r, "ValueError", e)

Started(r, stage, k) == [r EXCEPT !.trace = Append(@, [stage |-> stage, k |-> k])]

\* one loop `for qa in paragraph["qas"]`, from the k-th qa on
RECURSIVE QaLoop(_, _, _, _)
QaLoop(stage, report, r, k) ==
    IF r.exc # "" \/ k > Len(report.paragraphs[1].qas) THEN r
    ELSE QaLoop(stage, report,
                RunStage(stage, report.paragraphs[1].qas[k], report, Started(r, stage, k)),
                k + 1)

RECURSIVE QaLoops(_, _, _)
QaLoops(report, r, i) ==
    IF r.exc # "" \/ i > Len(QaStages) THEN r
    ELSE QaLoops(report, QaLoop(QaStages[i], report, r, 1), i + 1)

\* lines 135-136 and _validate_against_schema: the external validator
\* accepts the reassembled answers or raises ValidationError
StructuralCheck(r, required_fields_validation, structural_ok) ==
    IF r.exc # "" \/ ~required_fields_validation THEN r
    ELSE IF structural_ok THEN Started(r, "schema", 0)
    ELSE Raise(Started(r, "schema", 0), "ValidationError", "schema")

\* validate_report; used_ids is the set the caller passes
ValidateReport(report, required_fields_validation, used_ids, structural_ok) ==
    LET r0 == Started(Outcome("", "", <<>>, used_ids), "paragraphs", 0)
    IN IF "paragraphs" \in report.missing THEN Raise(r0, "KeyError", "paragraphs")
       ELSE IF Len(report.paragraphs) # 1 THEN Raise(r0, "ValueError", "paragraph_count")
       ELSE StructuralCheck(QaLoops(report, r0, 1), required_fields_validation, structural_ok)

\* line 115, `used_ids = used_ids or set()`: an empty set is replaced by a
\* new one, so only a non-empty set of the caller sees the ids added
CallerUsedIds(used_ids, r) == IF used_ids # {} THEN r.used_ids ELSE used_ids

\* ---------------------------------------------------------- report inputs
ReportIds == {"R1", "R2"}
Context == <<"a", "b", "a", "b">>
GoodAnswer == Answer("single", AStr(<<"a", "b">>), AInt(0))
BadOffsetAnswer == Answer("single", AStr(<<"a", "b">>), AInt(1))
GoodComplexAnswer ==
    Answer("complex", AList(<<AStr(<<"a", "b">>), AStr(<<"b">>)>>), AList(<<AInt(2), AInt(3)>>))

\* <<question_id, enumeration_value_id, answers, missing>>
DatasetQaShapes ==
    {<<"a", PyBool(TRUE), <<GoodAnswer>>, {}>>,
     <<"g.b", PyInt(1), <<GoodComplexAnswer>>, {}>>,
     <<"a", PyBool(TRUE), <<BadOffsetAnswer>>, {}>>,
     <<"a", PyStr(<<"x">>), <<>>, {"answers"}>>}
QaShapes ==
    DatasetQaShapes \cup
    {<<"zz", PyBool(TRUE), <<GoodAnswer>>, {}>>,
     <<"g.b", PyInt(-1), <<GoodAnswer>>, {}>>,
     <<"zz", PyBool(TRUE), <<GoodAnswer, BadOffsetAnswer>>, {}>>}

QasOf(shapes) ==
    {Qa(rid \o "_" \o sh[1], sh[1], sh[2], sh[3], sh[4]) : rid \in ReportIds, sh \in shapes}

\* the reports whose question-answer pairs have the given shapes
ReportsOf(shapes) ==
    {Report(rid, <<Paragraph(Context, qas)>>, {}) :
        rid \in ReportIds, qas \in UNION {[1..k -> QasOf(shapes)] : k \in 0..MaxQas}} \cup
    {Report(rid, <<>>, m) : rid \in ReportIds, m \in {{}, {"paragraphs"}}} \cup
    {Report(rid, <<Paragraph(Context, <<>>), Paragraph(Context, <<>>)>>, {}) : rid \in ReportIds}

Reports == ReportsOf(QaShapes)
DatasetReports == ReportsOf(DatasetQaShapes)

UsedIdSets == {{}, {"R1_a"}, {"R0_x"}}

\* <<required_fields_validation, structural_ok>>
StructuralCases == {<<FALSE, TRUE>>, <<TRUE, TRUE>>, <<TRUE, FALSE>>}

\* the schema of the validator: "a" is a boolean, "g.b" an integer >= 0
ValContainer ==
    Container(<<"properties">>, <<Prop("b", NumLeaf("integer", <<TRUE, 0>>, <<FALSE, 0>>, FALSE))>>)
ValSchema == Root(TypedLeaf(<<"boolean">>, FALSE), ValContainer)

AscendingOrder == <<0, 1, 2>>

\* the validator is built in a process whose sets iterate small ints in
\* ascending order
InitValidator == InitNew({AscendingOrder})

\* FormDefinition(schema_path) for the schema of the validator
ConstructValidator == ConstructFrom({ValSchema})

\* a caller validates one report with its own used_ids set
ValidateReportCall ==
    /\ pc = "ready"
    /\ \E report \in Reports, sc \in StructuralCases, used_ids \in UsedIdSets :
          \E r \in {ValidateReport(report, sc[1], used_ids, sc[2])} :
             call' = [op |-> "validate_report", report |-> report,
                      required_fields_validation |-> sc[1], structural_ok |-> sc[2],
                      used_before |-> used_ids, passed_before |-> {},
                      exc |-> r.exc, err |-> r.err, trace |-> r.trace,
                      used_after |-> CallerUsedIds(used_ids, r)]
    /\ pc' = "returned"
    /\ UNCHANGED <<hash_order, schema, question_ids, possible_options, run>>

NextReport == ConstructValidator \/ ValidateReportCall

SpecReport == InitValidator /\ [][NextReport]_vars

\* ------------------------------------------------------ dataset validation
Run(p, total, rfv, processed, used_ids, invalid_report_count, failed, passed_ids) ==
    [pc |-> p, total |-> total, required_fields_validation |-> rfv,
     processed |-> processed, used_ids |-> used_ids,
     invalid_report_count |-> invalid_report_count,
     failed |-> failed, passed_ids |-> passed_ids]

\* validate_dataset, lines 209-210: a dataset of `total` reports
StartDataset ==
    /\ pc = "ready"
    /\ \E total \in 0..MaxReports, rfv \in BOOLEAN :
          run' = Run("running", total, rfv, 0, {}, 0, 0, {})
    /\ pc' = "validating"
    /\ UNCHANGED <<hash_order, schema, question_ids, possible_options, call>>

\* lines 214-219: ValidationError and ValueError are counted, any other
\* exception leaves validate_dataset
Caught(exc) == exc \in {"ValidationError", "ValueError"}

\* lines 211-219: one pass of the loop over dataset["data"].  failed counts
\* the reports whose validation raised, passed_ids collects the ids that
\* passed _validate_qa in the reports so far.
DatasetStep ==
    /\ pc = "validating"
    /\ run.pc = "running"
    /\ run.processed < run.total
    /\ \E report \in DatasetReports, sc \in StructuralCases :
          /\ sc[1] = run.required_fields_validation
          /\ \E r \in {ValidateReport(report, sc[1], run.used_ids, sc[2])} :
                /\ call' = [op |-> "validate_report", report |-> report,
                            required_fields_validation |-> sc[1], structural_ok |-> sc[2],
                            used_before |-> run.used_ids, passed_before |-> run.passed_ids,
                            exc |-> r.exc, err |-> r.err, trace |-> r.trace,
                            used_after |-> CallerUsedIds(run.used_ids, r)]
                /\ run' = [run EXCEPT
                      !.pc = IF r.exc = "" \/ Caught(r.exc) THEN "running" ELSE "raised",
                      !.processed = IF r.exc = "" \/ Caught(r.exc) THEN @ + 1 ELSE @,
                      !.used_ids = CallerUsedIds(@, r),
                      !.invalid_report_count = IF Caught(r.exc) THEN @ + 1 ELSE @,
                      !.failed = IF r.exc # "" THEN @ + 1 ELSE @,
                      !.passed_ids = @ \cup (r.used_ids \ run.used_ids)]
    /\ UNCHANGED <<pc, hash_order, schema, question_ids, possible_options>>

\* line 220: the loop is over, the summary is logged
DatasetFinish ==
    /\ pc = "validating"
    /\ run.pc = "running"
    /\ run.processed = run.total
    /\ run' = [run EXCEPT !.pc = "done"]
    /\ UNCHANGED <<pc, hash_order, schema, question_ids, possible_options, call>>

\* validate_dataset has returned or raised; the next run starts afresh
DatasetReturn ==
    /\ pc = "validating"
    /\ run.pc \in {"done", "raised"}
    /\ pc' = "ready"
    /\ run' = NoRun
    /\ call' = NoCall
    /\ UNCHANGED <<hash_order, schema, question_ids, possible_options>>

NextDataset == ConstructValidator \/ StartDataset \/ DatasetStep \/ DatasetFinish \/ DatasetReturn

SpecDataset == InitValidator /\ [][NextDataset]_vars

\* --------------------------------------- properties of report validation
IsReportCall == call.op = "validate_report"
HasOneParagraph(report) == "paragraphs" \notin report.missing /\ Len(report.paragraphs) = 1
QasOfReport(report) == report.paragraphs[1].qas

\* the k-th qa of the report breaks the id format, the uniqueness against
\* the ids in `used` and the earlier qas, or the question_id membership
ViolatesIdentity(report, used, k) ==
    LET qas == QasOfReport(report)
    IN \/ qas[k].id # ExpectedId(report, qas[k])
       \/ qas[k].id \in used
       \/ \E j \in 1..(k - 1) : qas[j].id = qas[k].id
       \/ qas[k].question_id \notin question_ids
ViolatesEvidence(report, k) ==
    ValidateEvidences(QasOfReport(report)[k], report.paragraphs[1].context) # ""
ViolatesEnumeration(report, k) ==
    ValidateEnumerationValueIds(QasOfReport(report)[k]) # ""

SomeQa(report, P(_)) == \E k \in 1..Len(QasOfReport(report)) : P(k)

\* the earliest of the five stages that the report violates, or "none"
EarliestFailingStage(report, rfv, structural_ok, used) ==
    IF ~HasOneParagraph(report) THEN "paragraphs"
    ELSE IF SomeQa(report, LAMBDA k : ViolatesIdentity(report, used, k)) THEN "qa"
    ELSE IF SomeQa(report, LAMBDA k : ViolatesEvidence(report, k)) THEN "evidences"
    ELSE IF SomeQa(report, LAMBDA k : ViolatesEnumeration(report, k)) THEN "enumeration"
    ELSE IF rfv /\ ~structural_ok THEN "schema"
    ELSE "none"

StageRank(stage) ==
    CASE stage = "paragraphs" -> 1 [] stage = "qa" -> 2 [] stage = "evidences" -> 3
      [] stage = "enumeration" -> 4 [] stage = "schema" -> 5

\* the stage during which the call failed, or "none"
FailedStage == IF call.exc = "" THEN "none" ELSE call.trace[Len(call.trace)].stage

\* the report of the claim: its first qa has a bad evidence offset, its last
\* qa an unknown question_id, and nothing else is wrong with the ids
IsOrderExample ==
    /\ IsReportCall
    /\ HasOneParagraph(call.report)
    /\ LET qas == QasOfReport(call.report)
           n == Len(qas)
       IN /\ n >= 2
          /\ ValidateEvidences(qas[1], call.report.paragraphs[1].context) = "answer_not_found"
          /\ \A k \in 1..(n - 1) : ~ViolatesIdentity(call.report, call.used_before, k)
          /\ qas[n].id = ExpectedId(call.report, qas[n])
          /\ qas[n].id \notin call.used_before
          /\ \A j \in 1..(n - 1) : qas[j].id # qas[n].id
          /\ qas[n].question_id \notin question_ids

\* C3: validate_report runs its stages in the fixed order paragraph count,
\* ids of all QAs, evidence of all QAs, enumeration value of all QAs,
\* optional structural check; it fails with the failure of the earliest
\* stage that any QA violates and starts no check after a failure; a report
\* whose first QA has a bad evidence offset and whose last QA has an unknown
\* question_id fails with the question_id error; the structural validator
\* is invoked only when stages 1-4 all passed and the check was requested.
StagesInOrder ==
    IsReportCall =>
        /\ FailedStage = EarliestFailingStage(call.report, call.required_fields_validation,
                                              call.structural_ok, call.used_before)
        /\ \A i, j \in 1..Len(call.trace) :
              i < j => \/ StageRank(call.trace[i].stage) < StageRank(call.trace[j].stage)
                       \/ /\ call.trace[i].stage = call.trace[j].stage
                          /\ call.trace[i].k < call.trace[j].k
        /\ IsOrderExample => call.err = "unknown_question_id"
        /\ (\E i \in 1..Len(call.trace) : call.trace[i].stage = "schema")
              <=> /\ call.required_fields_validation
                  /\ EarliestFailingStage(call.report, FALSE, TRUE, call.used_before) = "none"

StagesInOrderWitness == IsOrderExample /\ call.exc = "ValueError" /\ FailedStage = "qa"

\* C10: when validate_report fails on a report at any stage, the
\* caller-supplied used_ids set holds exactly the ids it held before the call.
FailedReportKeepsUsedIds ==
    (IsReportCall /\ call.exc # "") => call.used_after = call.used_before

\* -------------------------------------- properties of dataset validation
\* the k-th qa of the report repeats an id that passed the identity check in
\* an earlier report, and the qas before it pass the identity check
IsSecondOccurrence(report, prior, k) ==
    LET qas == QasOfReport(report)
    IN /\ qas[k].id \in prior
       /\ qas[k].id = ExpectedId(report, qas[k])
       /\ \A j \in 1..(k - 1) : ~ViolatesIdentity(report, prior, j)

\* C1: in one validate_dataset run, a QA id that passed the identity check
\* in an earlier report and appears again in a later report gets the later
\* report flagged with a duplicate-id failure on that second occurrence; an
\* id is flagged as duplicate only if it was used before in the same run.
DuplicateAcrossReportsFlagged ==
    (IsReportCall /\ run.pc # "idle" /\ HasOneParagraph(call.report)) =>
        /\ SomeQa(call.report, LAMBDA k : IsSecondOccurrence(call.report, call.passed_before, k))
              => call.err = "duplicate_id"
        /\ call.err = "duplicate_id" =>
              SomeQa(call.report, LAMBDA k :
                  \/ QasOfReport(call.report)[k].id \in call.passed_before
                  \/ \E j \in 1..(k - 1) :
                        QasOfReport(call.report)[j].id = QasOfReport(call.report)[k].id)

\* C2: validate_dataset always completes: whatever failure the validation
\* of one report produces, every report is still processed, the call never
\* raises, and the final invalid count equals the number of reports whose
\* validation failed, with 0 <= invalid count <= total count.
DatasetAlwaysCompletes ==
    run.pc # "idle" =>
        /\ run.pc # "raised"
        /\ run.invalid_report_count >= 0 /\ run.invalid_report_count <= run.total
        /\ run.pc = "done" => /\ run.processed = run.total
                              /\ run.invalid_report_count = run.failed

\* ------------------------------------------------------ evidence checks
Chars == {"a", "b"}
Contexts == UNION {[1..k -> Chars] : k \in 0..MaxCtx}
ScalarTexts == {AStr(t) : t \in UNION {[1..k -> Chars] : k \in 0..2}} \cup {ANone, AInt(0)}
ScalarStarts ==
    {AInt(n) : n \in -1..(MaxCtx + 1)} \cup {ABool(TRUE), ABool(FALSE), ANone, AStr(<<"0">>)}
ItemTexts == {AStr(<<"a">>), AStr(<<"a", "b">>), ANone}
ItemStarts == {AInt(0), AInt(1), AInt(-1), ABool(TRUE)}
ListsOf(items) == {AList(l) : l \in UNION {[1..k -> items] : k \in 0..MaxItems}}
Answers ==
    {Answer(t, text, start) : t \in {"single", "complex", "multi"},
                              text \in ScalarTexts \cup ListsOf(ItemTexts),
                              start \in ScalarStarts \cup ListsOf(ItemStarts)}

\* _validate_evidences on a qa with one answer
ValidateEvidencesCall ==
    /\ pc = "ready"
    /\ \E context \in Contexts, answer \in Answers :
          call' = [op |-> "validate_evidences", context |-> context, answer |-> answer,
                   err |-> ValidateEvidences(Qa("R1_a", "a", PyBool(TRUE), <<answer>>, {}), context)]
    /\ pc' = "returned"
    /\ UNCHANGED <<hash_order, schema, question_ids, possible_options, run>>

NextEvidence == ConstructValidator \/ ValidateEvidencesCall

SpecEvidence == InitValidator /\ [][NextEvidence]_vars

\* text is a non-empty string, start a non-negative integer (a Python int, so
\* True and False count as 1 and 0) and context[start : start+len(text)] is text
SingleRule(text, start, context) ==
    /\ text.cls = "str" /\ Len(text.s) >= 1
    /\ start.cls \in {"int", "bool"} /\ start.n >= 0
    /\ start.n + Len(text.s) <= Len(context)
    /\ \A i \in 1..Len(text.s) : context[start.n + i] = text.s[i]

ComplexRule(answer, context) ==
    /\ answer.text.cls = "list" /\ answer.answer_start.cls = "list"
    /\ Len(answer.text.items) = Len(answer.answer_start.items)
    /\ Len(answer.text.items) > 1
    /\ \A i \in 1..Len(answer.text.items) :
          SingleRule(answer.text.items[i], answer.answer_start.items[i], context)

EvidenceRule(answer, context) ==
    \/ answer.answer_type = "single" /\ SingleRule(answer.text, answer.answer_start, context)
    \/ answer.answer_type = "complex" /\ ComplexRule(answer, context)

\* C4: an answer passes the evidence check iff: for 'single', text is a
\* non-empty string, answer_start a non-negative integer and
\* context[answer_start : answer_start+len(text)] equals text exactly (an
\* offset past the end of the context fails); for 'complex', text and
\* answer_start are lists of the same length greater than 1 and every pair
\* satisfies the 'single' rule; any other answer_type fails.
EvidenceCheckIsExact ==
    call.op = "validate_evidences" =>
        /\ call.err = "" <=> EvidenceRule(call.answer, call.context)
        /\ (/\ call.answer.answer_type = "single"
            /\ call.answer.answer_start.cls = "int"
            /\ call.answer.answer_start.n >= Len(call.context)) => call.err # ""
        /\ call.answer.answer_type \notin {"single", "complex"} => call.err = "answer_type"

\* a complex answer of two entries that passes
EvidenceCheckWitness ==
    /\ call.op = "validate_evidences"
    /\ call.answer.answer_type = "complex"
    /\ Len(call.answer.text.items) = 2
    /\ call.err = ""

\* ----------------------------------------------- enumeration value checks
DateChars == <<"2", "0", "2", "3", "-", "0", "2", "-">>
TimeChars == <<"1", "2", ":", "0", "0", ":", "0", "0">>
EnumerationValues ==
    {PyNone, PyBool(TRUE), PyBool(FALSE), PyFloat(0, 1), PyFloat(1, 0)} \cup
    {PyInt(n) : n \in (-MaxBound - 1)..(MaxBound + 1)} \cup
    {PyStr(<<"a">>), PyStr(<<"b">>), PyStr(<<"c">>),
     PyStr(DateChars \o <<"2", "8">>), PyStr(DateChars \o <<"3", "0">>), PyStr(TimeChars),
     PyStr(DateChars \o <<"2", "8", "T">> \o TimeChars)}

\* the schemas whose leaf "a" has supported data types only
ValueSchemas ==
    {Root(x, ValContainer) :
        x \in {l \in NumLeaves \cup EnumLeaves \cup OtherLeaves :
                  \A i \in 1..Len(l.type) : l.type[i] \in SupportedTypes}}

\* FormDefinition(schema_path) for one of these schemas
ConstructValue == ConstructFrom(ValueSchemas)

\* _validate_enumeration_value_ids on a qa of a known question
ValidateEnumerationValueCall ==
    /\ pc = "ready"
    /\ \E question_id \in question_ids, value \in EnumerationValues :
          \E qa \in {Qa("R1_" \o question_id, question_id, value, <<>>, {})} :
             call' = [op |-> "validate_enumeration", qa |-> qa,
                      err |-> ValidateEnumerationValueIds(qa)]
    /\ pc' = "returned"
    /\ UNCHANGED <<hash_order, schema, question_ids, possible_options, run>>

NextValue == ConstructValue \/ ValidateEnumerationValueCall

SpecValue == InitValidator /\ [][NextValue]_vars

\* value equals the literal option op as a typed literal: a boolean only
\* equals a boolean, a number only a number
TypedLiteralEqual(value, op) ==
    /\ op.cls \notin FormClasses
    /\ (value.cls = "bool") <=> (op.cls = "bool")
    /\ PyEq(value, op)

\* C5: a QA passes the enumeration-value check iff its enumeration_value_id
\* equals a literal possible option of its question_id (an enum literal, the
\* boolean true/false, or null) or is accepted by is_valid of one typed
\* possible option; values are matched as typed literals, so for a question
\* whose only options are the booleans true and false a numeric value such
\* as 1 or 0 is rejected.
ValuesMatchTypedLiterals ==
    call.op = "validate_enumeration" =>
        LET options == possible_options[call.qa.question_id]
            value == call.qa.enumeration_value_id
        IN /\ call.err = "" <=>
                 \E op \in options :
                    TypedLiteralEqual(value, op) \/ (op.cls \in FormClasses /\ IsValid(op, value))
           /\ (options = {PyBool(TRUE), PyBool(FALSE)} /\ value.cls \in {"int", "float"})
                 => call.err # ""

====
